---- MODULE Spec2Model ----
(***************************************************************************)
(* A model of find_amenities_near_route.py: the enrichment pipeline that   *)
(* samples a GPX track, queries Overpass in batches with retries and an    *)
(* on-disk cache, deduplicates the returned features and turns them into   *)
(* waypoints.  One run of the script is one pass of pc from "start" to     *)
(* "done" (or "crashed" when an exception reaches the top level); the      *)
(* cache file outlives the run and is seen by the next invocation.         *)
(*                                                                         *)
(* Coordinates are small integers; a feature's position is its lat field,  *)
(* the lon field is handled by the same statements on every line and is    *)
(* left out.  An optional value (None or x) is the sequence <<>> or <<x>>. *)
(*                                                                         *)
(* Spec is the pipeline (cache, batches, retries, waypoints, output) on    *)
(* tracks whose points are all sampled; GeoSpec is the geometry of a run   *)
(* (sampling, cumulative distances, calculate_distances) on every small    *)
(* track.  AddWpSpec is add_wp's handling of the website tag, CacheKeySpec *)
(* is build_cache_key on two invocations, ConcurrentSpec is several runs   *)
(* reading and writing one cache file, MergeSpec is the aggregation of     *)
(* batch results arriving in two orders.                                   *)
(***************************************************************************)
EXTENDS Integers, Sequences, FiniteSets, TLC

\* ---------------------------------------------------------------- bounds
MaxRetries == 2
MaxPoints == 2
MaxBatchSize == 2
MaxId == 2
MaxLat == 2
MaxElems == 1
MaxRuns == 2
MaxTime == 4
MaxWriteDelay == 1
\* the geometry specification: latitudes 0..MaxTrackLat on the grid, the
\* track's points and segments, --distance-step in grid units
MaxTrackLat == 3
MaxTrackPoints == 3
MaxSegments == 2
MaxStep == 2
\* concurrent runs on one cache key, and the buffer flushes one json.dump takes
MaxInvocations == 3
MaxBlocks == 2
\* batch results merged into one pair of dictionaries
MaxMerged == 2

\* --------------------------------------------------- program constants
\* --cache-ttl (seconds in the source, clock ticks here)
cache_ttl == 1
\* --retry-backoff, the first backoff delay
retry_backoff == 2
\* --distance-step, in metres
distance_step == 1000

VARIABLES
    gpx,             \* the parsed input file: its track segments and its own waypoints
    DISTANCE_STEP,   \* args.distance_step
    args,            \* the parsed command line: retries, nodes_only, no_cache, batch_size,
                     \* batch_sleep
    points,          \* the sampled points
    route_points,    \* every point of the track, in file order
    cumulative_distances,  \* distance from the start to each route point
    amenity_lat,     \* the argument of the latest calculate_distances call (<<>>: none yet)
    closest_index,   \* calculate_distances: index of the closest route point, from 0
    distances,       \* what the latest calculate_distances call returned
    now,             \* time.time()
    cacheFile,       \* the file <cache_dir>/overpass/<digest>.json
    run,             \* which invocation of the script this is
    pc,              \* where the script is
    crash,           \* what raised to the top level ("none" while running)
    cached,          \* what try_load_cache returned
    i,               \* offset in points of the batch being queried
    attempt,         \* loop variable of run_query_with_retries
    delay,           \* next backoff delay
    batch_queries,   \* api.query calls made for the current batch
    batch_fails,     \* retryable errors seen for the current batch
    batch_sleeps,    \* backoff sleeps made for the current batch
    last_error,      \* what the latest api.query call raised ("none": it returned)
    batchLog,        \* per finished batch: how it ended and what it returned
    final_nodes,     \* insertion-ordered dict id -> node
    final_ways,      \* insertion-ordered dict id -> way
    result_nodes,
    result_ways,
    saved,           \* this run wrote the cache entry
    seen,
    waypoints,       \* new_gpx.waypoints
    prev_waypoints,  \* waypoints of the run that wrote the current cache entry
    queries,         \* api.query calls of this run
    sleeps,          \* time.sleep calls of this run (backoff and pacing)
    output_written,  \* args.output has been written
    last_call,       \* the latest api.query or time.sleep call of this run (<<>>: none yet)
    cancel,          \* the caller has sent the interrupt signal
    tags,            \* add_wp: the tags of the feature
    wpt,             \* add_wp: the waypoint it builds (<<>>: not built yet)
    invocations,     \* build_cache_key: the inputs of two invocations of the script
    cache_digest,    \* build_cache_key: the digest each of them computed (<<>>: not yet)
    path_blocks,     \* concurrent runs: the blocks of the file at path (<<>> in <<>>: no file)
    procs,           \* concurrent runs: where each run is in try_load_cache / save_cache
    completions,     \* the merge: two orders in which the same batch results arrive
    merged           \* the merge: final_nodes and final_ways after each order (<<>>: not yet)

vars == <<gpx, DISTANCE_STEP, route_points, cumulative_distances, amenity_lat,
          closest_index, distances, args, points, now, cacheFile, run, pc, crash, cached,
          i, attempt, delay,
          batch_queries, batch_fails, batch_sleeps, last_error, batchLog, final_nodes,
          final_ways, result_nodes, result_ways, saved, seen, waypoints, prev_waypoints,
          queries, sleeps, output_written, last_call, cancel, tags, wpt,
          invocations, cache_digest, path_blocks, procs, completions, merged>>

\* the variables of the specifications of single functions
auxVars == <<tags, wpt, invocations, cache_digest, path_blocks, procs, completions, merged>>

\* ------------------------------------------------------------- helpers
Ids(s) == {s[k].id : k \in DOMAIN s}

Min(a, b) == IF a < b THEN a ELSE b

RECURSIVE SumSeq(_)
SumSeq(s) == IF s = <<>> THEN 0 ELSE Head(s) + SumSeq(Tail(s))

\* ------------------------------------------------------------ geometry
\* All points lie on one meridian, MetersPerUnit metres of arc apart per
\* unit of latitude: a latitude is an integer number of units.  On a
\* meridian haversine is R times the difference of the latitudes.
MetersPerUnit == 1000

Abs(x) == IF x < 0 THEN -x ELSE x

haversine(lat1, lat2) == Abs(lat2 - lat1) * MetersPerUnit

\* for trk in gpx.tracks: for seg in trk.segments: for p in seg.points
RECURSIVE Concat(_)
Concat(segs) == IF segs = <<>> THEN <<>> ELSE Head(segs) \o Concat(Tail(segs))

AllPoints(g) == Concat(g.tracks)

FarEnough_halfStep(d, step) == 2 * d >= step

\* haversine(last_pt, p) >= DISTANCE_STEP
FarEnough(d, step) == d >= step

\* Step 1: the sampling loop; last_pt is <<>> (None) or <<p>>.
RECURSIVE sampling(_, _, _, _)
sampling(pts, last_pt, step, out) ==
    IF pts = <<>> THEN out
    ELSE LET p == Head(pts) IN
         IF last_pt = <<>> \/ FarEnough(haversine(last_pt[1], p), step)
         THEN sampling(Tail(pts), <<p>>, step, Append(out, p))
         ELSE sampling(Tail(pts), last_pt, step, out)

RoutePoints_sampled(g, pts) == pts

\* Step 3 walks gpx.tracks again, not the sampled points.
RoutePoints(g, pts) == AllPoints(g)

NextEntry_noSum(last, dist) == dist

\* cumulative_distances[-1] + dist
NextEntry(last, dist) == last + dist

\* Step 3: cumulative_distances starts as [0] and gets one more entry for
\* every route point after the first.
RECURSIVE CumulativeFrom(_, _, _)
CumulativeFrom(rp, k, cd) ==
    IF k > Len(rp) THEN cd
    ELSE CumulativeFrom(rp, k + 1,
                        IF k > 1
                        THEN Append(cd, NextEntry(cd[Len(cd)], haversine(rp[k - 1], rp[k])))
                        ELSE cd)

CumulativeDistances(rp) == CumulativeFrom(rp, 1, <<0>>)

Closer_orEqual(dist, min_dist) == min_dist = <<>> \/ dist <= min_dist[1]

\* if dist < min_dist_to_route; min_dist is <<>> for float('inf')
Closer(dist, min_dist) == min_dist = <<>> \/ dist < min_dist[1]

\* The scan of calculate_distances over enumerate(route_points), from
\* position k (i = k - 1), with the closest index (from 0) found so far.
RECURSIVE ClosestFrom(_, _, _, _, _)
ClosestFrom(rp, k, lat, min_dist, idx) ==
    IF k > Len(rp) THEN [closest_index |-> idx, min_dist_to_route |-> min_dist[1]]
    ELSE LET dist == haversine(rp[k], lat) IN
         IF Closer(dist, min_dist)
         THEN ClosestFrom(rp, k + 1, lat, <<dist>>, k - 1)
         ELSE ClosestFrom(rp, k + 1, lat, min_dist, idx)

NoDistances == [dist_from_start |-> 0, dist_to_end |-> 0, min_dist_to_route |-> 0]

\* calculate_distances(amenity_lat, amenity_lon): the tuple it returns and
\* the closest index it used.
calculate_distances(lat, rp, cd) ==
    IF rp = <<>> THEN [closest_index |-> 0, result |-> NoDistances]
    ELSE LET c == ClosestFrom(rp, 1, lat, <<>>, 0)
             total_route_distance == cd[Len(cd)]
         IN  [closest_index |-> c.closest_index,
              result |-> [dist_from_start |-> cd[c.closest_index + 1] \div 1000,
                          dist_to_end |-> (total_route_distance - cd[c.closest_index + 1]) \div 1000,
                          min_dist_to_route |-> c.min_dist_to_route]]

\* ---------------------------------------------------- Overpass elements
FeatureIds == 1..MaxId
Lats == 1..MaxLat

\* overpy.Node: id, lat
Nodes == [id : FeatureIds, lat : Lats]

\* overpy.Way: id, center_lat (None unless "out center" gave one), and the
\* nodes property, which raises DataIncomplete when a referenced node is
\* not part of the result.
Ways == [id : FeatureIds, center : {<<>>, <<1>>}, nodes : {<<>>, <<1, 3>>},
         incomplete : BOOLEAN]

LiveWays == {w \in Ways : w.incomplete => w.nodes = <<>>}

\* The elements a query built by build_query_for_points can return: the
\* nodes_only query has no way statement.  Overpass returns the union of
\* the statements, each element once.
UniqueIds(s) == \A a, b \in DOMAIN s : s[a].id = s[b].id => a = b

SeqsUpTo(S, n) == UNION {[1..k -> S] : k \in 0..n}

Responses(nodes_only) ==
    {r \in [nodes : SeqsUpTo(Nodes, MaxElems),
            ways : IF nodes_only THEN {<<>>} ELSE SeqsUpTo(LiveWays, MaxElems)] :
        /\ Len(r.nodes) + Len(r.ways) <= MaxElems
        /\ UniqueIds(r.nodes)
        /\ UniqueIds(r.ways)}

\* The exceptions api.query raises.
RetryableErrors == {"OverpassGatewayTimeout", "OverpassTooManyRequests", "MaxRetriesReached"}
FatalErrors == {"OverpassBadRequest", "OtherException"}

\* ------------------------------------------------------ the cache file
AbsentFile == [state |-> "absent", created |-> 0, mtime |-> 0, nodes |-> <<>>, ways |-> <<>>]

\* A file json.load or the field accesses choke on, or that cannot be read.
CorruptFile(t) == [state |-> "corrupt", created |-> 0, mtime |-> t, nodes |-> <<>>, ways |-> <<>>]

EntryFile(c, m, ns, ws) == [state |-> "entry", created |-> c, mtime |-> m, nodes |-> ns, ways |-> ws]

NoResult == [raised |-> FALSE, hit |-> FALSE, nodes |-> <<>>, ways |-> <<>>]
Raised == [raised |-> TRUE, hit |-> FALSE, nodes |-> <<>>, ways |-> <<>>]
Hit(ns, ws) == [raised |-> FALSE, hit |-> TRUE, nodes |-> ns, ways |-> ws]

\* What the file system does during one try_load_cache call.  makedirs can
\* only fail while the directory, and so the file, does not exist; a file
\* that exists can be removed by another process during the call.
LoadIO(file) ==
    IF file.state = "absent" THEN {"ok", "mkdir_error"}
    ELSE {"ok", "removed_before_stat", "removed_before_open"}

\* age > args.cache_ttl
Expired(age) == age > cache_ttl

\* The SimpleNamespace lists built from the JSON data.
LoadNodes(file) == [k \in DOMAIN file.nodes |-> [id |-> file.nodes[k].id, lat |-> file.nodes[k].lat]]

LoadWays(file) ==
    [k \in DOMAIN file.ways |->
        [id |-> file.ways[k].id, center |-> <<file.ways[k].center_lat>>,
         nodes |-> <<>>, incomplete |-> FALSE]]

try_load_cache(a, file, t, io) ==
    IF a.no_cache THEN NoResult
    ELSE IF io = "mkdir_error" THEN Raised
    ELSE IF file.state = "absent" THEN NoResult
    ELSE IF io = "removed_before_stat" THEN Raised
    ELSE IF Expired(t - file.mtime) THEN NoResult
    ELSE IF io = "removed_before_open" \/ file.state = "corrupt" THEN NoResult
    ELSE Hit(LoadNodes(file), LoadWays(file))

\* The file after the call: only another process's removal changes it.
FileAfterLoad(a, file, io) ==
    IF ~a.no_cache /\ io \in {"removed_before_stat", "removed_before_open"}
    THEN AbsentFile ELSE file

\* The dictionaries save_cache serializes.  float(c_lat or 0.0): a way left
\* without a centre is stored at 0.
StoreCenter(w) ==
    LET c_lat == IF w.center # <<>> THEN w.center
                 ELSE IF ~w.incomplete /\ w.nodes # <<>>
                      THEN <<SumSeq(w.nodes) \div Len(w.nodes)>>
                      ELSE <<>>
    IN IF c_lat = <<>> THEN 0 ELSE c_lat[1]

SerialNodes(ns) == [k \in DOMAIN ns |-> [id |-> ns[k].id, lat |-> ns[k].lat]]

SerialWays(a, ws) ==
    IF a.nodes_only THEN <<>>
    ELSE [k \in DOMAIN ws |-> [id |-> ws[k].id, center_lat |-> StoreCenter(ws[k])]]

\* What can go wrong in the save block: os.makedirs in cache_paths, float()
\* or json.dump rejecting a value before anything is written, open, and the
\* write itself.
SaveIO == {"ok", "mkdir_error", "serialize_error", "open_error", "write_error"}

Swallowed_inSaveCacheOnly(io) == io # "mkdir_error"

\* except Exception in save_cache, and except Exception around the whole
\* save block for what save_cache raises outside its own try (cache_paths).
Swallowed(io) == TRUE

\* The file after save_cache(digest, store_nodes, store_ways) called at
\* time t, the write ending at time t + d.  open(path, "w") truncates the
\* file, so a write that fails after it leaves a file json.load rejects.
save_cache(a, file, t, d, ns, ws, io) ==
    IF a.no_cache THEN file
    ELSE IF io \in {"mkdir_error", "serialize_error", "open_error"} THEN file
    ELSE IF io = "write_error" THEN CorruptFile(t + d)
    ELSE EntryFile(t, t + d, SerialNodes(ns), SerialWays(a, ws))

\* ------------------------------------------------- retries and batches
\* Durations are whole tenths of a second.
TenthsPerSecond == 10

\* --batch-sleep: a negative and a positive value
BatchSleeps == {-5, 5}

\* what last_call holds
NoCall == <<>>
ApiQuery == <<[call |-> "query", seconds |-> 0]>>
TimeSleep(s) == <<[call |-> "sleep", seconds |-> s]>>

Jitter_half(d) == {0, 5 * d}

\* random.uniform(0, delay * 0.3), in tenths: the two ends of the interval
Jitter(d) == {0, 3 * d}

\* sleep_s = delay + jitter
SleepS(d, jitter) == TenthsPerSecond * d + jitter

Pacing_unclamped(batch_sleep) == batch_sleep

\* max(0.0, args.batch_sleep)
Pacing(batch_sleep) == IF batch_sleep > 0 THEN batch_sleep ELSE 0

IsRetryable_all(err) == TRUE

\* except (OverpassGatewayTimeout, OverpassTooManyRequests, MaxRetriesReached)
IsRetryable(err) == err \in RetryableErrors

RetriesExhausted_early(att, retries) == att >= retries

\* if attempt > args.retries: raise
RetriesExhausted(att, retries) == att > retries

Caught_overpassOnly(err) == err # "OtherException"

\* except Exception around run_query_with_retries
Caught(err) == TRUE

MergeOne_lastWins(final, x) ==
    IF x.id \in Ids(final)
    THEN [k \in DOMAIN final |-> IF final[k].id = x.id THEN x ELSE final[k]]
    ELSE Append(final, x)

\* if n.id not in final_nodes: final_nodes[n.id] = n
MergeOne(final, x) == IF x.id \in Ids(final) THEN final ELSE Append(final, x)

RECURSIVE Aggregate(_, _)
Aggregate(final, items) ==
    IF items = <<>> THEN final
    ELSE Aggregate(MergeOne(final, Head(items)), Tail(items))

CacheHit_never(c) == FALSE

NoPoints_never(pts) == FALSE

\* if not points
NoPoints(pts) == pts = <<>>

\* if cached is not None
CacheHit(c) == c.hit

\* ------------------------------------------------------------ waypoints
AlreadySeen_always(s, id) == TRUE

\* if n.id in seen: continue
AlreadySeen(s, id) == id \in s

Waypoint(kind, id, lat) == [kind |-> kind, id |-> id, lat |-> lat]

RECURSIVE SynthNodes(_, _, _)
SynthNodes(ns, s, wps) ==
    IF ns = <<>> THEN [seen |-> s, wps |-> wps]
    ELSE LET n == Head(ns) IN
         IF AlreadySeen(s, n.id) THEN SynthNodes(Tail(ns), s, wps)
         ELSE SynthNodes(Tail(ns), s \cup {n.id}, Append(wps, Waypoint("node", n.id, n.lat)))

WayWaypoint_originCentre(w) ==
    IF w.center = <<>> /\ (w.incomplete \/ w.nodes = <<>>)
    THEN <<Waypoint("way", w.id, 0)>>
    ELSE IF w.incomplete \/ w.nodes = <<>> THEN <<>>
    ELSE <<Waypoint("way", w.id,
                    IF w.center # <<>> THEN w.center[1]
                    ELSE SumSeq(w.nodes) \div Len(w.nodes))>>

\* The body of the way loop after the seen check: w.nodes raises
\* DataIncomplete (caught, the way is skipped), is empty (nothing is added),
\* or gives the nodes, and then the centre is the provided one or the average.
WayWaypoint(w) ==
    IF w.incomplete THEN <<>>
    ELSE IF w.nodes = <<>> THEN <<>>
    ELSE <<Waypoint("way", w.id,
                    IF w.center # <<>> THEN w.center[1]
                    ELSE SumSeq(w.nodes) \div Len(w.nodes))>>

RECURSIVE SynthWays(_, _, _)
SynthWays(ws, s, wps) ==
    IF ws = <<>> THEN [seen |-> s, wps |-> wps]
    ELSE LET w == Head(ws) IN
         IF AlreadySeen(s, w.id) THEN SynthWays(Tail(ws), s, wps)
         ELSE SynthWays(Tail(ws), s \cup {w.id}, wps \o WayWaypoint(w))

\* ------------------------------------------------- add_wp: the website
\* A string is the sequence of its pieces.  The pieces of a website tag: a
\* whitespace character, a scheme with its "://", a host name, a path, a path
\* holding a space, a query, the entity "&amp;", a bare "&" and a second
\* query argument.
RestOfUrl == {<<>>, <<"/menu">>, <<"/a b">>, <<"/menu", "?a=1", "&amp;", "b=2">>,
              <<"/menu", "?a=1", "&", "b=2">>}

\* The values a website tag holds in OSM data: an optional scheme, the host,
\* the rest, with or without whitespace around it.
RawUrls ==
    {lead \o scheme \o <<"joes.coffee">> \o rest \o trail :
        lead \in {<<>>, <<"ws">>}, scheme \in {<<>>, <<"http://">>, <<"https://">>},
        rest \in RestOfUrl, trail \in {<<>>, <<"ws">>}}

\* s.strip()
RECURSIVE LStrip(_)
LStrip(s) == IF s # <<>> /\ Head(s) = "ws" THEN LStrip(Tail(s)) ELSE s

RECURSIVE RStrip(_)
RStrip(s) == IF s # <<>> /\ s[Len(s)] = "ws" THEN RStrip(SubSeq(s, 1, Len(s) - 1)) ELSE s

Strip(s) == RStrip(LStrip(s))

\* s.replace('&amp;', '&')
Unescape(s) == [k \in DOMAIN s |-> IF s[k] = "&amp;" THEN "&" ELSE s[k]]

\* '://' in s
HasScheme(s) == \E k \in DOMAIN s : s[k] \in {"http://", "https://"}

\* quote(unquote(part), safe=safe_set): a space is not in the safe set
Quote(s) == [k \in DOMAIN s |-> IF s[k] = "/a b" THEN "/a%20b" ELSE s[k]]

sanitize_url(url) ==
    IF url = <<>> THEN url
    ELSE LET s == Unescape(Strip(url))
         IN  Quote(IF HasScheme(s) THEN s ELSE <<"https://">> \o s)

\* xml.sax.saxutils.escape(str(text), ...)
escape_xml(text) == [k \in DOMAIN text |-> IF text[k] = "&" THEN "&amp;" ELSE text[k]]

\* urlsplit(safe_url).netloc
Netloc(url) ==
    IF \E k \in DOMAIN url : url[k] = "joes.coffee" THEN <<"joes.coffee">> ELSE <<>>

\* a tag that is set and not the empty string
Truthy(v) == v # <<>> /\ v[1] # <<>>

NoTags == [website |-> <<>>, contact_website |-> <<>>, url |-> <<>>]

\* tags.get("website") or tags.get("contact:website") or tags.get("url")
Website(t) ==
    IF Truthy(t.website) THEN t.website
    ELSE IF Truthy(t.contact_website) THEN t.contact_website
    ELSE t.url

\* the text of full_desc after "Website: "
WebsiteText(website) == website

\* The waypoint add_wp builds: full_desc with the website as text, and the
\* link, its text and its type when there is a website.
GPXWaypoint(t) ==
    LET website == Website(t)
    IN  IF Truthy(website)
        THEN LET safe_url == sanitize_url(website[1])
             IN  [description |-> [distance_info |-> TRUE, website |-> <<WebsiteText(website[1])>>],
                  link |-> <<escape_xml(safe_url)>>,
                  link_text |-> <<IF Netloc(safe_url) # <<>> THEN Netloc(safe_url) ELSE safe_url>>,
                  link_type |-> <<"text/html">>]
        ELSE [description |-> [distance_info |-> TRUE, website |-> <<>>],
              link |-> <<>>, link_text |-> <<>>, link_type |-> <<>>]

\* ------------------------------------------------------- the cache key
\* AMENITY_FILTER is a constant of the script.
AMENITY_FILTER == "^(cafe|restaurant|pub|bar|fast_food|toilets|drinking_water|fuel)$"

\* hashlib.sha256(...).hexdigest(): equal digests only for equal texts
Sha256(text) == <<"sha256", text>>

\* A coordinate is a whole number of 1e-7 degrees; f"{p.latitude:.6f}" keeps
\* six decimals, rounding the seventh.
CoordUnitsPerMicro == 10

Format6f(x) == (x + CoordUnitsPerMicro \div 2) \div CoordUnitsPerMicro

\* file_sig: abspath|int(st_mtime)|st_size, or the abspath alone when
\* os.stat raises
FileSig(inv) ==
    IF inv.stat = <<>> THEN <<inv.input_file>>
    ELSE <<inv.input_file, inv.stat[1].st_mtime, inv.stat[1].st_size>>

build_cache_key(inv) ==
    LET pts_digest == Sha256([k \in DOMAIN inv.points_list |-> Format6f(inv.points_list[k])])
        scope == IF inv.nodes_only THEN "nodes" ELSE "nodes_ways"
    IN  Sha256(<<"v1", FileSig(inv), inv.distance_step, inv.search_radius, AMENITY_FILTER,
                 scope, pts_digest>>)

\* os.path.join(cache_base, f"{digest}.json")
cache_paths(digest) == <<".cache", "overpass", digest>>

\* The query text of one batch holding all the points, with the coordinates
\* as str() prints them, and the server it is sent to.
build_query_for_points(inv) ==
    [scope |-> IF inv.nodes_only THEN "nodes" ELSE "nodes_ways", filter |-> AMENITY_FILTER,
     radius |-> inv.search_radius, around |-> inv.points_list]

Endpoint(inv) == inv.endpoint

\* ------------------------------------------- the cache file, block by block
\* json.dump(serial, f) reaches the file as one write per flush of f's
\* buffer, the last one at close.  The document run p writes is n blocks;
\* its last block ends with the closing brace.
Document(p, n) == [k \in 1..n |-> [writer |-> p, idx |-> k, last |-> (k = n)]]

\* a gap the file system fills with NUL bytes
Hole == [writer |-> 0, idx |-> 0, last |-> FALSE]

\* open(path, "w"): the file exists and is empty
Truncated == <<<<>>>>

\* f.write at position pos of a file that was not opened for appending
WriteAt(blocks, pos, b) ==
    [k \in 1..(IF pos > Len(blocks) THEN pos ELSE Len(blocks)) |->
        IF k = pos THEN b ELSE IF k <= Len(blocks) THEN blocks[k] ELSE Hole]

\* json.load(f) returns: the text is one whole JSON document, each block
\* continuing the previous one and the closing brace at the very end.  Two
\* documents of the same layout (the same features saved at different times,
\* or with different tag values) continue each other's blocks.
Parses(blocks) ==
    /\ blocks # <<>>
    /\ \A k \in DOMAIN blocks : blocks[k].idx = k /\ (blocks[k].last <=> k = Len(blocks))

\* ------------------------------------------------- parts left at rest
\* A specification of one part of the script leaves the variables of the
\* other parts as the script finds them before that part runs.
IdlePipeline ==
    /\ args = [retries |-> 0, nodes_only |-> FALSE, no_cache |-> TRUE, batch_size |-> 1,
               batch_sleep |-> 5]
    /\ now = cache_ttl + 1
    /\ cacheFile = AbsentFile
    /\ run = 1
    /\ crash = "none"
    /\ cached = NoResult
    /\ i = 0
    /\ attempt = 1
    /\ delay = retry_backoff
    /\ batch_queries = 0
    /\ batch_fails = 0
    /\ batch_sleeps = 0
    /\ last_error = "none"
    /\ batchLog = <<>>
    /\ final_nodes = <<>>
    /\ final_ways = <<>>
    /\ result_nodes = <<>>
    /\ result_ways = <<>>
    /\ saved = FALSE
    /\ seen = {}
    /\ waypoints = <<>>
    /\ prev_waypoints = <<>>
    /\ queries = 0
    /\ sleeps = 0
    /\ output_written = FALSE
    /\ last_call = NoCall
    /\ cancel = FALSE

IdleGeo ==
    /\ gpx = [tracks |-> <<>>, waypoints |-> <<>>]
    /\ DISTANCE_STEP = distance_step
    /\ points = <<>>
    /\ route_points = <<>>
    /\ cumulative_distances = <<0>>
    /\ amenity_lat = <<>>
    /\ closest_index = 0
    /\ distances = NoDistances

IdleAddWp ==
    /\ tags = NoTags
    /\ wpt = <<>>

IdleCacheKey ==
    /\ invocations = <<>>
    /\ cache_digest = <<>>

IdleConcurrent ==
    /\ path_blocks = <<>>
    /\ procs = <<>>

IdleMerge ==
    /\ completions = <<>>
    /\ merged = <<>>

\* ------------------------------------------------------------ the runs
\* A cache entry an earlier invocation with the same key left behind: one
\* node and, unless the key is a nodes_only one, one way.  The key holds the
\* digest of the sampled points, so the entry of a run without points was
\* written by a run without points, which found nothing.
PriorFiles(nodes_only, pts) ==
    {EntryFile(c, m, IF pts = <<>> THEN <<>> ELSE <<[id |-> 1, lat |-> 1]>>,
               IF nodes_only \/ pts = <<>> THEN <<>> ELSE <<[id |-> MaxId, center_lat |-> 1]>>) :
        c \in 0..cache_ttl, m \in 0..cache_ttl}

\* The input files of the pipeline runs: one segment of up to MaxPoints
\* points one --distance-step apart (or no track at all), and the waypoints
\* the file itself may hold.
InputWaypoints == {<<>>, <<[name |-> "input", lat |-> 1]>>}

PipelineInputs ==
    {[tracks |-> IF n = 0 THEN <<>> ELSE <<[k \in 1..n |-> k]>>, waypoints |-> w] :
        n \in 0..MaxPoints, w \in InputWaypoints}

Init ==
    /\ args \in [retries : 0..MaxRetries, nodes_only : BOOLEAN, no_cache : BOOLEAN,
                 batch_size : 1..MaxBatchSize, batch_sleep : BatchSleeps]
    /\ gpx \in PipelineInputs
    /\ DISTANCE_STEP = distance_step
    /\ points = sampling(AllPoints(gpx), <<>>, DISTANCE_STEP, <<>>)
    /\ route_points = <<>>
    /\ cumulative_distances = <<0>>
    /\ amenity_lat = <<>>
    /\ closest_index = 0
    /\ distances = NoDistances
    /\ now = cache_ttl + 1
    /\ cacheFile \in {AbsentFile, CorruptFile(cache_ttl)}
                     \cup {f \in PriorFiles(args.nodes_only, points) : f.created <= f.mtime}
    /\ run = 1
    /\ pc = "start"
    /\ crash = "none"
    /\ cached = NoResult
    /\ i = 0
    /\ attempt = 1
    /\ delay = retry_backoff
    /\ batch_queries = 0
    /\ batch_fails = 0
    /\ batch_sleeps = 0
    /\ last_error = "none"
    /\ batchLog = <<>>
    /\ final_nodes = <<>>
    /\ final_ways = <<>>
    /\ result_nodes = <<>>
    /\ result_ways = <<>>
    /\ saved = FALSE
    /\ seen = {}
    /\ waypoints = <<>>
    /\ prev_waypoints = <<>>
    /\ queries = 0
    /\ sleeps = 0
    /\ output_written = FALSE
    /\ last_call = NoCall
    /\ cancel = FALSE
    /\ IdleAddWp
    /\ IdleCacheKey
    /\ IdleConcurrent
    /\ IdleMerge

\* cache_digest = build_cache_key(points); cached = try_load_cache(...);
\* the branch on cached and on an empty points list.
LoadCache ==
    /\ pc = "start"
    /\ \E io \in LoadIO(cacheFile) :
        LET res == try_load_cache(args, cacheFile, now, io)
            file == FileAfterLoad(args, cacheFile, io)
        IN  /\ cached' = res
            /\ cacheFile' = file
            /\ prev_waypoints' = IF file = cacheFile THEN prev_waypoints ELSE <<>>
            /\ IF res.raised
               THEN /\ pc' = "crashed"
                    /\ crash' = "try_load_cache"
                    /\ UNCHANGED <<result_nodes, result_ways>>
               ELSE IF CacheHit(res)
               THEN /\ pc' = "synth"
                    /\ result_nodes' = res.nodes
                    /\ result_ways' = res.ways
                    /\ UNCHANGED crash
               ELSE IF NoPoints(points)
               THEN /\ pc' = "save"
                    /\ result_nodes' = <<>>
                    /\ result_ways' = <<>>
                    /\ UNCHANGED crash
               ELSE /\ pc' = "query"
                    /\ UNCHANGED <<crash, result_nodes, result_ways>>
    /\ UNCHANGED <<gpx, DISTANCE_STEP, amenity_lat, closest_index, distances>>
    /\ UNCHANGED auxVars
    /\ UNCHANGED <<last_call, cancel>>
    /\ UNCHANGED <<route_points, cumulative_distances>>
    /\ UNCHANGED <<args, points, now, run, i, attempt, delay, batch_queries, batch_fails,
                   batch_sleeps, last_error, batchLog, final_nodes, final_ways, saved, seen,
                   waypoints, queries, sleeps, output_written>>

\* The batch loop moves on: the next batch, or after the last one the
\* result lists are taken from the dictionaries.
EndBatch(entry, fn, fw) ==
    /\ batchLog' = Append(batchLog, entry)
    /\ final_nodes' = fn
    /\ final_ways' = fw
    /\ i' = i + args.batch_size
    /\ attempt' = 1
    /\ delay' = retry_backoff
    /\ batch_queries' = 0
    /\ batch_fails' = 0
    /\ batch_sleeps' = 0
    /\ UNCHANGED crash
    /\ IF i + args.batch_size < Len(points)
       THEN /\ pc' = "query"
            /\ UNCHANGED <<result_nodes, result_ways>>
       ELSE /\ pc' = "save"
            /\ result_nodes' = fn
            /\ result_ways' = IF args.nodes_only THEN <<>> ELSE fw

LogEntry(status, err, r) ==
    [status |-> status, error |-> err, queries |-> batch_queries + 1,
     fails |-> IF status = "exhausted" THEN batch_fails + 1 ELSE batch_fails,
     sleeps |-> batch_sleeps, nodes |-> r.nodes, ways |-> r.ways]

NoResponse == [nodes |-> <<>>, ways |-> <<>>]

\* run_query_with_retries raised: the except clause of the batch loop logs
\* and continues, an exception it does not catch ends the script.
BatchRaised(status, err) ==
    IF Caught(err)
    THEN /\ EndBatch(LogEntry(status, err, NoResponse), final_nodes, final_ways)
         /\ UNCHANGED sleeps
    ELSE /\ pc' = "crashed"
         /\ crash' = "run_query_with_retries"
         /\ UNCHANGED <<sleeps, batchLog, final_nodes, final_ways, i, attempt, delay,
                        batch_queries, batch_fails, batch_sleeps, result_nodes, result_ways>>

\* api.query(q) returns: the batch is aggregated and the loop sleeps batch_sleep.
QueryOk ==
    /\ pc = "query"
    /\ \E r \in Responses(args.nodes_only) :
        /\ EndBatch(LogEntry("ok", "none", r),
                    Aggregate(final_nodes, r.nodes),
                    IF args.nodes_only THEN final_ways ELSE Aggregate(final_ways, r.ways))
    /\ queries' = queries + 1
    /\ sleeps' = sleeps + 1
    /\ last_call' = TimeSleep(Pacing(args.batch_sleep))
    /\ last_error' = "none"
    /\ UNCHANGED <<gpx, DISTANCE_STEP, amenity_lat, closest_index, distances>>
    /\ UNCHANGED auxVars
    /\ UNCHANGED cancel
    /\ UNCHANGED <<route_points, cumulative_distances>>
    /\ UNCHANGED <<args, points, now, cacheFile, run, cached, saved, seen, waypoints,
                   prev_waypoints, output_written>>

\* api.query(q) raises one of the errors of the first except clause.
QueryRetryableError ==
    /\ pc = "query"
    /\ \E err \in RetryableErrors \cup FatalErrors :
        /\ IsRetryable(err)
        /\ last_error' = err
        /\ IF RetriesExhausted(attempt, args.retries)
           THEN /\ BatchRaised("exhausted", err)
                /\ last_call' = ApiQuery
           ELSE /\ sleeps' = sleeps + 1
                /\ \E jitter \in Jitter(delay) : last_call' = TimeSleep(SleepS(delay, jitter))
                /\ batch_sleeps' = batch_sleeps + 1
                /\ batch_queries' = batch_queries + 1
                /\ batch_fails' = batch_fails + 1
                /\ delay' = delay * 2
                /\ attempt' = attempt + 1
                /\ UNCHANGED <<batchLog, final_nodes, final_ways, i, result_nodes, result_ways>>
                \* range(1, args.retries + 2) running out returns None, and
                \* batch_res.nodes then raises outside the try.
                /\ IF attempt + 1 < args.retries + 2
                   THEN UNCHANGED <<pc, crash>>
                   ELSE pc' = "crashed" /\ crash' = "batch_res"
    /\ queries' = queries + 1
    /\ UNCHANGED <<gpx, DISTANCE_STEP, amenity_lat, closest_index, distances>>
    /\ UNCHANGED auxVars
    /\ UNCHANGED cancel
    /\ UNCHANGED <<route_points, cumulative_distances>>
    /\ UNCHANGED <<args, points, now, cacheFile, run, cached, saved, seen, waypoints,
                   prev_waypoints, output_written>>

\* api.query(q) raises OverpassBadRequest, re-raised by the second except
\* clause, or an exception no clause of run_query_with_retries names.
QueryFatalError ==
    /\ pc = "query"
    /\ \E err \in RetryableErrors \cup FatalErrors :
        /\ ~IsRetryable(err)
        /\ last_error' = err
        /\ BatchRaised("fatal", err)
        /\ last_call' = ApiQuery
    /\ queries' = queries + 1
    /\ UNCHANGED <<gpx, DISTANCE_STEP, amenity_lat, closest_index, distances>>
    /\ UNCHANGED auxVars
    /\ UNCHANGED cancel
    /\ UNCHANGED <<route_points, cumulative_distances>>
    /\ UNCHANGED <<args, points, now, cacheFile, run, cached, saved, seen, waypoints,
                   prev_waypoints, output_written>>

\* The "Save cache on success" block: store_ways is built and save_cache
\* called; an exception that neither try swallows would end the script.
SaveCache ==
    /\ pc = "save"
    /\ \E io \in SaveIO, d \in 0..Min(MaxWriteDelay, MaxTime - now) :
        LET file == save_cache(args, cacheFile, now, d, result_nodes, result_ways, io)
        IN  /\ cacheFile' = file
            /\ saved' = (~args.no_cache /\ io = "ok")
            /\ now' = IF args.no_cache \/ io \in {"mkdir_error", "serialize_error", "open_error"}
                      THEN now ELSE now + d
            /\ prev_waypoints' = IF file = cacheFile THEN prev_waypoints ELSE <<>>
            /\ IF args.no_cache \/ io = "ok" \/ Swallowed(io)
               THEN pc' = "synth" /\ UNCHANGED crash
               ELSE pc' = "crashed" /\ crash' = "save_cache"
    /\ UNCHANGED <<gpx, DISTANCE_STEP, amenity_lat, closest_index, distances>>
    /\ UNCHANGED auxVars
    /\ UNCHANGED <<last_call, cancel>>
    /\ UNCHANGED <<route_points, cumulative_distances>>
    /\ UNCHANGED <<args, points, run, cached, i, attempt, delay, batch_queries,
                   batch_fails, batch_sleeps, last_error, batchLog, final_nodes, final_ways,
                   result_nodes, result_ways, seen, waypoints, queries, sleeps,
                   output_written>>

\* Step 3: the route points and the cumulative distances; step 4: the node
\* loop, then the way loop, over the result lists.
Synthesize ==
    /\ pc = "synth"
    /\ LET afterNodes == SynthNodes(result_nodes, seen, waypoints)
           afterWays == SynthWays(result_ways, afterNodes.seen, afterNodes.wps)
       IN  /\ seen' = afterWays.seen
           /\ waypoints' = afterWays.wps
    /\ route_points' = RoutePoints(gpx, points)
    /\ cumulative_distances' = CumulativeDistances(RoutePoints(gpx, points))
    /\ pc' = "write"
    /\ UNCHANGED <<gpx, DISTANCE_STEP, amenity_lat, closest_index, distances>>
    /\ UNCHANGED auxVars
    /\ UNCHANGED <<last_call, cancel>>
    /\ UNCHANGED <<args, points, now, cacheFile, run, crash, cached, i, attempt, delay,
                   batch_queries, batch_fails, batch_sleeps, last_error, batchLog, final_nodes,
                   final_ways, result_nodes, result_ways, saved, prev_waypoints,
                   queries, sleeps, output_written>>

\* new_gpx = gpxpy.gpx.GPX() with the tracks of gpx appended to its empty
\* track list and the waypoints add_wp appended to its empty waypoint list.
new_gpx == [tracks |-> gpx.tracks, waypoints |-> waypoints]

\* with open(args.output, "w") as f: f.write(new_gpx.to_xml())
WriteOutput ==
    /\ pc = "write"
    /\ output_written' = TRUE
    /\ pc' = "done"
    /\ UNCHANGED <<gpx, DISTANCE_STEP, amenity_lat, closest_index, distances>>
    /\ UNCHANGED auxVars
    /\ UNCHANGED <<last_call, cancel>>
    /\ UNCHANGED <<route_points, cumulative_distances>>
    /\ UNCHANGED <<args, points, now, cacheFile, run, crash, cached, i, attempt, delay,
                   batch_queries, batch_fails, batch_sleeps, last_error, batchLog, final_nodes,
                   final_ways, result_nodes, result_ways, saved, seen, waypoints,
                   prev_waypoints, queries, sleeps>>

\* The script is invoked again on the same input with the same arguments
\* after a run that wrote the cache entry, at most cache_ttl later.
Rerun ==
    /\ pc = "done"
    /\ saved
    /\ run < MaxRuns
    /\ run' = run + 1
    /\ \E dt \in 0..Min(cache_ttl, MaxTime - now) : now' = now + dt
    /\ prev_waypoints' = <<waypoints>>
    /\ pc' = "start"
    /\ cached' = NoResult
    /\ i' = 0
    /\ attempt' = 1
    /\ delay' = retry_backoff
    /\ batch_queries' = 0
    /\ batch_fails' = 0
    /\ batch_sleeps' = 0
    /\ last_error' = "none"
    /\ batchLog' = <<>>
    /\ final_nodes' = <<>>
    /\ final_ways' = <<>>
    /\ result_nodes' = <<>>
    /\ result_ways' = <<>>
    /\ saved' = FALSE
    /\ seen' = {}
    /\ waypoints' = <<>>
    /\ queries' = 0
    /\ sleeps' = 0
    /\ output_written' = FALSE
    /\ route_points' = <<>>
    /\ cumulative_distances' = <<0>>
    /\ UNCHANGED <<gpx, DISTANCE_STEP, amenity_lat, closest_index, distances>>
    /\ UNCHANGED auxVars
    /\ last_call' = NoCall
    /\ cancel' = FALSE
    /\ UNCHANGED <<args, points, cacheFile, crash>>

\* The caller interrupts the script (SIGINT) while the batch loop is in
\* api.query or time.sleep: KeyboardInterrupt is not an Exception, no except
\* clause of run_query_with_retries or of the batch loop catches it, and it
\* reaches the top level.
Interrupt ==
    /\ pc = "query"
    /\ cancel' = TRUE
    /\ pc' = "crashed"
    /\ crash' = "KeyboardInterrupt"
    /\ UNCHANGED <<gpx, DISTANCE_STEP, amenity_lat, closest_index, distances>>
    /\ UNCHANGED auxVars
    /\ UNCHANGED <<route_points, cumulative_distances>>
    /\ UNCHANGED <<args, points, now, cacheFile, run, cached, i, attempt, delay,
                   batch_queries, batch_fails, batch_sleeps, last_error, batchLog, final_nodes,
                   final_ways, result_nodes, result_ways, saved, seen, waypoints,
                   prev_waypoints, queries, sleeps, output_written, last_call>>

Next ==
    \/ LoadCache
    \/ QueryOk
    \/ QueryRetryableError
    \/ QueryFatalError
    \/ Interrupt
    \/ SaveCache
    \/ Synthesize
    \/ WriteOutput
    \/ Rerun

Spec == Init /\ [][Next]_vars

\* ------------------------------------------- the geometry of one run
\* Sampling, the cumulative distance table and calculate_distances are
\* functions of the input track, --distance-step and the feature's position
\* alone.  This specification applies them to every small track: no cache,
\* no query, and the variables of those parts stay as the script finds them.
pipelineVars == <<args, now, cacheFile, run, crash, cached, i, attempt, delay,
                  batch_queries, batch_fails, batch_sleeps, last_error, batchLog,
                  final_nodes, final_ways, result_nodes, result_ways, saved, seen,
                  waypoints, prev_waypoints, queries, sleeps, output_written,
                  last_call, cancel>>

geoVars == <<gpx, DISTANCE_STEP, points, route_points, cumulative_distances,
             amenity_lat, closest_index, distances>>

\* flat cut into segments of the lengths lens
Split(flat, lens) ==
    [j \in DOMAIN lens |->
        SubSeq(flat, SumSeq(SubSeq(lens, 1, j - 1)) + 1, SumSeq(SubSeq(lens, 1, j)))]

\* Tracks of up to MaxSegments segments (empty ones included) holding up to
\* MaxTrackPoints points in all, at latitudes 0..MaxTrackLat.
GeoTracks ==
    {Split(flat, lens) :
        <<flat, lens>> \in
            {fl \in SeqsUpTo(0..MaxTrackLat, MaxTrackPoints)
                     \X SeqsUpTo(0..MaxTrackPoints, MaxSegments) :
                SumSeq(fl[2]) = Len(fl[1])}}

GeoInit ==
    /\ gpx \in [tracks : GeoTracks, waypoints : {<<>>}]
    /\ DISTANCE_STEP \in {k * MetersPerUnit : k \in 0..MaxStep}
    /\ points = <<>>
    /\ route_points = <<>>
    /\ cumulative_distances = <<0>>
    /\ amenity_lat = <<>>
    /\ closest_index = 0
    /\ distances = NoDistances
    /\ pc = "sample"
    /\ IdlePipeline
    /\ IdleAddWp
    /\ IdleCacheKey
    /\ IdleConcurrent
    /\ IdleMerge

\* Step 1: points is sampled from the track.
Sampling ==
    /\ pc = "sample"
    /\ points' = sampling(AllPoints(gpx), <<>>, DISTANCE_STEP, <<>>)
    /\ pc' = "annotate"
    /\ UNCHANGED <<gpx, DISTANCE_STEP, route_points, cumulative_distances, amenity_lat,
                   closest_index, distances>>
    /\ UNCHANGED pipelineVars
    /\ UNCHANGED auxVars

\* Step 3: route_points and cumulative_distances are built.
BuildRoute ==
    /\ pc = "annotate"
    /\ route_points' = RoutePoints(gpx, points)
    /\ cumulative_distances' = CumulativeDistances(RoutePoints(gpx, points))
    /\ pc' = "distances"
    /\ UNCHANGED <<gpx, DISTANCE_STEP, points, amenity_lat, closest_index, distances>>
    /\ UNCHANGED pipelineVars
    /\ UNCHANGED auxVars

\* add_wp calls calculate_distances for a feature at some latitude.
CalculateDistances ==
    /\ pc \in {"distances", "annotated"}
    /\ \E lat \in 0..MaxTrackLat :
        LET r == calculate_distances(lat, route_points, cumulative_distances)
        IN  /\ amenity_lat' = <<lat>>
            /\ closest_index' = r.closest_index
            /\ distances' = r.result
    /\ pc' = "annotated"
    /\ UNCHANGED <<gpx, DISTANCE_STEP, points, route_points, cumulative_distances>>
    /\ UNCHANGED pipelineVars
    /\ UNCHANGED auxVars

GeoNext ==
    \/ Sampling
    \/ BuildRoute
    \/ CalculateDistances

GeoSpec == GeoInit /\ [][GeoNext]_vars

\* --------------------------------------------- add_wp on one feature
\* add_wp is called once per feature; what it does with the website depends
\* on the feature's tags alone.  This specification calls it on every small
\* set of tags.
FeatureTags ==
    [website : {<<>>, <<<<>>>>} \cup {<<u>> : u \in RawUrls},
     contact_website : {<<>>, <<<<"ws", "joes.coffee">>>>},
     url : {<<>>, <<<<"http://", "joes.coffee", "/menu">>>>}]

AddWpInit ==
    /\ tags \in FeatureTags
    /\ wpt = <<>>
    /\ pc = "add_wp"
    /\ IdleGeo
    /\ IdlePipeline
    /\ IdleCacheKey
    /\ IdleConcurrent
    /\ IdleMerge

AddWp ==
    /\ pc = "add_wp"
    /\ wpt' = <<GPXWaypoint(tags)>>
    /\ pc' = "added"
    /\ UNCHANGED tags
    /\ UNCHANGED geoVars
    /\ UNCHANGED pipelineVars
    /\ UNCHANGED <<invocations, cache_digest, path_blocks, procs, completions, merged>>

AddWpNext == AddWp

AddWpSpec == AddWpInit /\ [][AddWpNext]_vars

\* ------------------------------------ build_cache_key on two invocations
\* The script is invoked twice with the same --cache-dir; each invocation
\* computes its cache digest from its own arguments, input file and sampled
\* points, and looks for the file cache_paths names.
InputFiles == {"a.gpx", "b.gpx"}
Stats == {<<>>} \cup {<<st>> : st \in [st_mtime : {1, 2}, st_size : {1, 2}]}
Endpoints == {<<>>, <<"https://overpass.kumi.systems/api/interpreter">>}
\* one sampled point: two that differ in the seventh decimal only, and one
\* that differs in the sixth
PointLists == {<<10>>, <<14>>, <<20>>}

Invocations ==
    [input_file : InputFiles, stat : Stats, distance_step : {1000, 2000},
     search_radius : {300, 500}, nodes_only : BOOLEAN, endpoint : Endpoints,
     points_list : PointLists]

CacheKeyInit ==
    /\ invocations \in [1..2 -> Invocations]
    /\ cache_digest = <<>>
    /\ pc = "cache_key"
    /\ IdleGeo
    /\ IdlePipeline
    /\ IdleAddWp
    /\ IdleConcurrent
    /\ IdleMerge

\* cache_digest = build_cache_key(points), in the next invocation
BuildCacheKey ==
    /\ pc = "cache_key"
    /\ Len(cache_digest) < 2
    /\ cache_digest' = Append(cache_digest, build_cache_key(invocations[Len(cache_digest) + 1]))
    /\ UNCHANGED <<pc, invocations>>
    /\ UNCHANGED geoVars
    /\ UNCHANGED pipelineVars
    /\ UNCHANGED <<tags, wpt, path_blocks, procs, completions, merged>>

CacheKeyNext == BuildCacheKey

CacheKeySpec == CacheKeyInit /\ [][CacheKeyNext]_vars

\* ------------------------------------- concurrent runs on one cache key
\* Up to MaxInvocations runs of the script with the same cache digest are
\* under way at once.  Each calls try_load_cache and, on a miss, queries and
\* calls save_cache; the steps of different runs interleave at the system
\* calls on the file: exists/read, open for writing, each write.
Proc(at, serial, pos, data) == [at |-> at, serial |-> serial, pos |-> pos, data |-> data]

ConcurrentInit ==
    /\ path_blocks \in {<<>>, <<Document(0, 1)>>, <<Document(0, MaxBlocks)>>}
    /\ procs = [p \in 1..MaxInvocations |-> Proc("load", <<>>, 0, <<>>)]
    /\ pc = "concurrent"
    /\ IdleGeo
    /\ IdlePipeline
    /\ IdleAddWp
    /\ IdleCacheKey
    /\ IdleMerge

\* try_load_cache: no file, or json.load raises and the except clause
\* returns None (a miss); otherwise what the file holds is returned.
TryLoadCache(p) ==
    /\ procs[p].at = "load"
    /\ procs' = [procs EXCEPT ![p] =
                    IF path_blocks # <<>> /\ Parses(path_blocks[1])
                    THEN Proc("done", <<>>, 0, <<path_blocks[1]>>)
                    ELSE Proc("save", <<>>, 0, <<>>)]
    /\ UNCHANGED path_blocks

\* save_cache: serial is built, open(path, "w") truncates the file.
OpenForWrite(p) ==
    /\ procs[p].at = "save"
    /\ \E n \in 1..MaxBlocks :
        procs' = [procs EXCEPT ![p] = Proc("dump", Document(p, n), 1, <<>>)]
    /\ path_blocks' = Truncated

\* json.dump: the next block of serial is written at f's position; after
\* the last one f is closed.
WriteBlock(p) ==
    /\ procs[p].at = "dump"
    /\ LET me == procs[p]
       IN  /\ path_blocks' = <<WriteAt(path_blocks[1], me.pos, me.serial[me.pos])>>
           /\ procs' = [procs EXCEPT ![p] =
                           IF me.pos = Len(me.serial)
                           THEN Proc("done", me.serial, me.pos, <<>>)
                           ELSE Proc("dump", me.serial, me.pos + 1, <<>>)]

\* one run takes its next step; the other parts of the script are not involved
ConcurrentFrame ==
    /\ UNCHANGED pc
    /\ UNCHANGED geoVars
    /\ UNCHANGED pipelineVars
    /\ UNCHANGED <<tags, wpt, invocations, cache_digest, completions, merged>>

ConcurrentLoad == pc = "concurrent" /\ ConcurrentFrame /\ \E p \in 1..MaxInvocations : TryLoadCache(p)

ConcurrentOpen == pc = "concurrent" /\ ConcurrentFrame /\ \E p \in 1..MaxInvocations : OpenForWrite(p)

ConcurrentWrite == pc = "concurrent" /\ ConcurrentFrame /\ \E p \in 1..MaxInvocations : WriteBlock(p)

ConcurrentNext ==
    \/ ConcurrentLoad
    \/ ConcurrentOpen
    \/ ConcurrentWrite

ConcurrentSpec == ConcurrentInit /\ [][ConcurrentNext]_vars

\* ------------------------------------------- the merge of batch results
\* The aggregation of the batch loop, applied to the results of up to
\* MaxMerged batches as they arrive in one order and in another one: the
\* second order holds the same batch results, rearranged, one of them
\* possibly twice.
RECURSIVE MergeBatches(_, _)
MergeBatches(final, results) ==
    IF results = <<>> THEN final
    ELSE MergeBatches([nodes |-> Aggregate(final.nodes, Head(results).nodes),
                       ways |-> Aggregate(final.ways, Head(results).ways)],
                      Tail(results))

Rearranged(a) ==
    {[k \in 1..m |-> a[f[k]]] :
        <<m, f>> \in {mf \in UNION {{n} \X [1..n -> DOMAIN a] : n \in Len(a)..(Len(a) + 1)} :
                        \A j \in DOMAIN a : \E k \in 1..mf[1] : mf[2][k] = j}}

MergeInit ==
    /\ completions \in {<<a, b>> : <<a, b>> \in
                          UNION {{a} \X Rearranged(a) : a \in SeqsUpTo(Responses(FALSE), MaxMerged)}}
    /\ merged = <<>>
    /\ pc = "merge"
    /\ IdleGeo
    /\ IdlePipeline
    /\ IdleAddWp
    /\ IdleCacheKey
    /\ IdleConcurrent

\* final_nodes = {}; final_ways = {}; then the aggregation of each batch
\* result in turn
Merge ==
    /\ pc = "merge"
    /\ merged' = <<MergeBatches(NoResponse, completions[1]),
                   MergeBatches(NoResponse, completions[2])>>
    /\ pc' = "merged"
    /\ UNCHANGED completions
    /\ UNCHANGED geoVars
    /\ UNCHANGED pipelineVars
    /\ UNCHANGED <<tags, wpt, invocations, cache_digest, path_blocks, procs>>

MergeNext == Merge

MergeSpec == MergeInit /\ [][MergeNext]_vars

\* ============================================================== claims
\* total_batches, for a non-empty points list
TotalBatches == (Len(points) + args.batch_size - 1) \div args.batch_size

\* The run missed the cache and has left the batch loop.
QueriedAll == /\ pc \in {"save", "synth", "write", "done"}
              /\ ~cached.hit
              /\ points # <<>>

Count(kind, id) == Cardinality({k \in DOMAIN waypoints :
                                   waypoints[k].kind = kind /\ waypoints[k].id = id})

\* The batches, by number, that succeeded and returned an element with this id.
NodeBatches(id) == {k \in DOMAIN batchLog : id \in Ids(batchLog[k].nodes)}
WayBatches(id) == {k \in DOMAIN batchLog : id \in Ids(batchLog[k].ways)}

Earliest(S) == CHOOSE k \in S : \A j \in S : k <= j

ElementOf(s, id) == s[CHOOSE k \in DOMAIN s : s[k].id = id]

\* C1: a batch whose query fails with a retryable error N times and then
\* succeeds took exactly N+1 queries and N backoff sleeps, with N <= retries;
\* a batch dropped for retryable errors took exactly retries+1 queries, all
\* of them failed; no batch has more than retries+1 queries; and after a
\* dropped batch the loop goes on with the next batch.
C1_RetryPolicy ==
    /\ \A k \in DOMAIN batchLog :
        LET b == batchLog[k] IN
        /\ b.status = "ok" => /\ b.fails <= args.retries
                              /\ b.queries = b.fails + 1
                              /\ b.sleeps = b.fails
        /\ b.status = "exhausted" => /\ b.fails = args.retries + 1
                                     /\ b.queries = args.retries + 1
                                     /\ b.sleeps = args.retries
        /\ b.queries <= args.retries + 1
    /\ pc = "query" => /\ batch_queries = batch_fails
                       /\ batch_fails <= args.retries
                       /\ Len(batchLog) * args.batch_size = i
                       /\ i < Len(points)
    /\ QueriedAll => Len(batchLog) = TotalBatches
    /\ crash \notin {"run_query_with_retries", "batch_res"}

\* A batch that succeeded on its last permitted attempt after one that was
\* dropped with the retries used up, the run having gone on.
C1_Witness ==
    /\ pc = "done"
    /\ args.retries >= 1
    /\ Len(batchLog) = 2
    /\ batchLog[1].status = "exhausted"
    /\ batchLog[2].status = "ok"
    /\ batchLog[2].fails = args.retries
    /\ batchLog[2].queries = args.retries + 1

\* C2: when api.query raises a non-retryable error the batch ends with it:
\* the batch is logged as failed at once, with no query and no backoff sleep
\* for that batch after the error (its queries are the retryable failures
\* before it plus this one), so exactly one query when the error comes first.
C2_NoRetryOnFatal ==
    /\ last_error \in FatalErrors =>
        /\ batchLog # <<>>
        /\ batch_queries = 0
        /\ batch_sleeps = 0
        /\ LET b == batchLog[Len(batchLog)] IN
            /\ b.status = "fatal"
            /\ b.error = last_error
            /\ b.queries = b.fails + 1
            /\ b.sleeps = b.fails
    /\ \A k \in DOMAIN batchLog :
        batchLog[k].error \in FatalErrors =>
            /\ batchLog[k].status = "fatal"
            /\ batchLog[k].queries = batchLog[k].fails + 1
            /\ batchLog[k].sleeps = batchLog[k].fails

\* A bad request on the first query of a batch, with retries to spare: one
\* query, no sleep, and the run has finished.
C2_Witness ==
    /\ pc = "done"
    /\ args.retries = MaxRetries
    /\ batchLog # <<>>
    /\ batchLog[1].error = "OverpassBadRequest"
    /\ batchLog[1].queries = 1
    /\ batchLog[1].sleeps = 0
    /\ queries = Len(batchLog)
    /\ sleeps = 0

\* C3: no failure of a batch ends the script; every batch of the run is
\* queried at least once whatever happened to the batches before it; and
\* after the loop the result lists hold every node and way (by id) that a
\* batch that succeeded returned.
C3_FailureNeverAborts ==
    /\ crash \notin {"run_query_with_retries", "batch_res"}
    /\ pc = "query" => Len(batchLog) * args.batch_size = i
    /\ QueriedAll =>
        /\ Len(batchLog) = TotalBatches
        /\ \A k \in DOMAIN batchLog :
            /\ batchLog[k].queries >= 1
            /\ batchLog[k].status = "ok" =>
                /\ Ids(batchLog[k].nodes) \subseteq Ids(result_nodes)
                /\ Ids(batchLog[k].ways) \subseteq Ids(result_ways)

\* The first batch failed with an exception of no Overpass class, the second
\* succeeded and its node is in the output.
C3_Witness ==
    /\ pc = "done"
    /\ output_written
    /\ Len(batchLog) = 2
    /\ batchLog[1].error = "OtherException"
    /\ batchLog[2].status = "ok"
    /\ batchLog[2].nodes # <<>>
    /\ Ids(batchLog[2].nodes) \subseteq Ids(result_nodes)
    /\ Count("node", batchLog[2].nodes[1].id) = 1

\* C4: in a run whose try_load_cache returned a hit there is no api.query
\* call and no sleep, the batch loop is never entered, and the result lists
\* are the lists try_load_cache returned.
C4_HitSkipsNetwork ==
    cached.hit =>
        /\ queries = 0
        /\ sleeps = 0
        /\ batchLog = <<>>
        /\ pc \in {"synth", "write", "done"}
        /\ ~saved
        /\ result_nodes = cached.nodes
        /\ result_ways = cached.ways

\* A finished run served from an entry holding a node and a way, for a
\* track with points to query.
C4_Witness ==
    /\ cached.hit
    /\ pc = "done"
    /\ points # <<>>
    /\ cached.nodes # <<>>
    /\ cached.ways # <<>>
    /\ result_nodes = cached.nodes

\* C5: a finished run that was served from the cache has the same waypoint
\* list as the run that wrote the entry it was served from.
C5_SameWaypointsFromCache ==
    (pc = "done" /\ cached.hit /\ prev_waypoints # <<>>) =>
        waypoints = prev_waypoints[1]

C7_KindAndIdIdentity ==
    pc = "done" =>
        \A a \in DOMAIN result_nodes, b \in DOMAIN result_ways :
            (result_nodes[a].id = result_ways[b].id /\ WayWaypoint(result_ways[b]) # <<>>) =>
                /\ Count("node", result_nodes[a].id) = 1
                /\ Count("way", result_ways[b].id) = 1

\* C8: the dictionaries hold, for every id a batch that succeeded returned,
\* the element of the earliest such batch, and nothing else; ways are
\* aggregated only when the run is not nodes_only.
C8_FirstOccurrenceWins ==
    (~cached.hit /\ pc # "start") =>
        /\ Ids(final_nodes) = {id \in FeatureIds : NodeBatches(id) # {}}
        /\ \A id \in Ids(final_nodes) :
            ElementOf(final_nodes, id) = ElementOf(batchLog[Earliest(NodeBatches(id))].nodes, id)
        /\ Ids(final_ways) = {id \in FeatureIds : WayBatches(id) # {} /\ ~args.nodes_only}
        /\ \A id \in Ids(final_ways) :
            ElementOf(final_ways, id) = ElementOf(batchLog[Earliest(WayBatches(id))].ways, id)
        /\ UniqueIds(final_nodes)
        /\ UniqueIds(final_ways)

\* Both batches returned the same node id with different data and the same
\* way id with different data; the first batch's elements are the ones kept.
C8_Witness ==
    /\ pc = "done"
    /\ Len(batchLog) = 2
    /\ batchLog[1].nodes # <<>>
    /\ batchLog[2].nodes # <<>>
    /\ batchLog[1].nodes[1].id = batchLog[2].nodes[1].id
    /\ batchLog[1].nodes[1].lat # batchLog[2].nodes[1].lat
    /\ result_nodes = batchLog[1].nodes

\* The step in which try_load_cache is called.
LoadStep == pc = "start" /\ pc' # "start"

\* C9: try_load_cache gives no entry back when caching is disabled, when
\* there is no entry, or when now minus the entry's "created" time is above
\* the TTL; for an entry that is read, of age at most the TTL, it returns the
\* entry's nodes and ways.  (Whether "no entry back" is None or an exception
\* is C10's subject; here it is only required not to be a hit.)
C9_LoadByCreationTime ==
    [][LoadStep =>
        LET age == now - cacheFile.created
        IN  /\ (\/ args.no_cache
                \/ cacheFile.state = "absent"
                \/ (cacheFile.state = "entry" /\ age > cache_ttl)) => ~cached'.hit
            /\ (/\ ~args.no_cache
                /\ cacheFile.state = "entry"
                /\ cacheFile' = cacheFile
                /\ age <= cache_ttl) =>
                    /\ cached'.hit
                    /\ cached'.nodes = LoadNodes(cacheFile)
                    /\ cached'.ways = LoadWays(cacheFile)]_vars

\* C10: try_load_cache never raises: whatever the state of the cache store
\* it returns, and without a hit the run goes on to the queries (or, with
\* no points, to the empty result).
C10_LoadNeverRaises ==
    /\ ~cached.raised
    /\ crash # "try_load_cache"
    /\ (pc # "start" /\ ~cached.hit) => pc \in {"query", "save", "synth", "write", "done"}

\* The waypoints steps 3 and 4 build from the result lists.
WaypointsOf(ns, ws) ==
    LET afterNodes == SynthNodes(ns, {}, <<>>)
    IN  SynthWays(ws, afterNodes.seen, afterNodes.wps).wps

\* The run missed the cache, caching is on, and the save block failed.
SaveFailed == /\ pc \in {"synth", "write", "done"}
              /\ ~cached.hit
              /\ ~args.no_cache
              /\ ~saved

\* C11: no failure of the save block ends the script, and after a failed
\* save the run goes on with the result lists the batch loop left (the
\* aggregated features, or nothing for an empty sample), builds from them
\* the waypoints it builds after a successful save, and writes the output.
C11_SaveIsBestEffort ==
    /\ crash # "save_cache"
    /\ (pc \in {"synth", "write", "done"} /\ ~cached.hit) =>
        /\ result_nodes = final_nodes
        /\ result_ways = (IF args.nodes_only THEN <<>> ELSE final_ways)
        /\ pc \in {"write", "done"} => waypoints = WaypointsOf(result_nodes, result_ways)
        /\ pc = "done" => output_written

\* A run whose save failed leaving a truncated file, finished with a node
\* waypoint and a way waypoint written.
C11_Witness ==
    /\ SaveFailed
    /\ pc = "done"
    /\ output_written
    /\ cacheFile.state = "corrupt"
    /\ Len(waypoints) = 2
    /\ waypoints[2].kind = "way"

\* The centroid of a way as the pipeline holds it: the provided one, else the
\* average of its nodes, else none.
FeatureCentroid(w) ==
    IF w.center # <<>> THEN w.center
    ELSE IF ~w.incomplete /\ w.nodes # <<>> THEN <<SumSeq(w.nodes) \div Len(w.nodes)>>
    ELSE <<>>

EquivalentNodes(stored, loaded) ==
    /\ Len(loaded) = Len(stored)
    /\ \A k \in DOMAIN stored : loaded[k].id = stored[k].id /\ loaded[k].lat = stored[k].lat

EquivalentWays(stored, loaded) ==
    /\ Len(loaded) = Len(stored)
    /\ \A k \in DOMAIN stored :
        /\ loaded[k].id = stored[k].id
        /\ loaded[k].center = FeatureCentroid(stored[k])

\* C12: after a save_cache that wrote the entry, try_load_cache of the same
\* key (nothing else touching the file) returns, while the entry's age is at
\* most the TTL, the saved nodes with their ids and coordinates and the saved
\* ways with their ids and centroids, and returns absent once the age is
\* above the TTL.  (The age is taken from the creation time for the first
\* part and from the end of the write for the second: the window between
\* the two is C9's subject and is left open here.)
C12_RoundTrip ==
    [][(pc = "save" /\ saved') =>
        \A t \in now'..(now' + cache_ttl + 1) :
            LET res == try_load_cache(args, cacheFile', t, "ok")
            IN  /\ ~res.raised
                /\ t - cacheFile'.created <= cache_ttl =>
                    /\ res.hit
                    /\ EquivalentNodes(result_nodes, res.nodes)
                    /\ EquivalentWays(result_ways, res.ways)
                /\ t - cacheFile'.mtime > cache_ttl => ~res.hit]_vars

\* ------------------------------------------------ geometry claims
\* The sum of the haversine distances between consecutive points of ps.
RECURSIVE PathLength(_)
PathLength(ps) ==
    IF Len(ps) < 2 THEN 0
    ELSE haversine(ps[1], ps[2]) + PathLength(Tail(ps))

\* C13: once the track is sampled, a track with at least one point has its
\* first point as the first sample, and any two consecutive samples are at
\* least DISTANCE_STEP apart.
C13_SamplerSpacing ==
    pc \in {"annotate", "distances", "annotated"} =>
        /\ AllPoints(gpx) # <<>> => (points # <<>> /\ points[1] = AllPoints(gpx)[1])
        /\ \A k \in 1..(Len(points) - 1) :
            haversine(points[k], points[k + 1]) >= DISTANCE_STEP

\* A track of two segments from which a point nearer than the step was
\* dropped and a later one kept.
C13_Witness ==
    /\ pc = "annotate"
    /\ DISTANCE_STEP = 2 * MetersPerUnit
    /\ Len(gpx.tracks) = 2
    /\ gpx.tracks[1] # <<>>
    /\ gpx.tracks[2] # <<>>
    /\ Len(AllPoints(gpx)) = 3
    /\ Len(points) = 2
    /\ points[2] = AllPoints(gpx)[3]

\* C14: the cumulative distance table starts at 0, never decreases, and
\* ends at the length of the path through all points of all segments.
C14_CumulativeTable ==
    pc \in {"distances", "annotated"} =>
        /\ cumulative_distances[1] = 0
        /\ \A k \in 1..(Len(cumulative_distances) - 1) :
            cumulative_distances[k] <= cumulative_distances[k + 1]
        /\ cumulative_distances[Len(cumulative_distances)] = PathLength(AllPoints(gpx))

\* A track of two non-empty segments, longer than its sampled points, with
\* a repeated point (two equal entries) and a positive length.
C14_Witness ==
    /\ pc = "distances"
    /\ Len(gpx.tracks) = 2
    /\ gpx.tracks[1] # <<>>
    /\ gpx.tracks[2] # <<>>
    /\ Len(points) < Len(route_points)
    /\ Len(cumulative_distances) = 3
    /\ cumulative_distances[2] = cumulative_distances[1]
    /\ cumulative_distances[3] > cumulative_distances[2]

\* C15: for a route with points, the closest index is the index of a route
\* point no farther from the feature than any other route point, and the
\* lowest index among the route points at that distance.
C15_NearestLowestIndex ==
    (pc = "annotated" /\ route_points # <<>>) =>
        LET lat == amenity_lat[1]
            c == closest_index + 1
        IN  /\ c \in DOMAIN route_points
            /\ \A k \in DOMAIN route_points :
                /\ haversine(route_points[c], lat) <= haversine(route_points[k], lat)
                /\ haversine(route_points[k], lat) = haversine(route_points[c], lat) => c <= k

\* A feature halfway between two route points, the second of which comes
\* after a point farther away: the first of the two is the closest.
C15_Witness ==
    /\ pc = "annotated"
    /\ Len(route_points) = 3
    /\ closest_index = 1
    /\ haversine(route_points[2], amenity_lat[1]) = MetersPerUnit
    /\ haversine(route_points[3], amenity_lat[1]) = MetersPerUnit
    /\ route_points[2] # route_points[3]
    /\ haversine(route_points[1], amenity_lat[1]) > MetersPerUnit

\* The index (from 1) of the first of the points of ps closest to lat.
Nearest(ps, lat) ==
    CHOOSE c \in DOMAIN ps :
        \A k \in DOMAIN ps :
            /\ haversine(ps[c], lat) <= haversine(ps[k], lat)
            /\ haversine(ps[k], lat) = haversine(ps[c], lat) => c <= k

\* C16: for a track with points, calculate_distances returns, with c the
\* nearest of all track points and the table entry of c the length of the
\* path from the first track point to c: that entry in km, the rest of the
\* route in km, and the distance from the feature to point c; the first two
\* are not negative and add up to the length of the route in km.
C16_Distances ==
    (pc = "annotated" /\ AllPoints(gpx) # <<>>) =>
        LET all == AllPoints(gpx)
            lat == amenity_lat[1]
            c == Nearest(all, lat)
            at_c == PathLength(SubSeq(all, 1, c))
            total == PathLength(all)
        IN  /\ distances.dist_from_start = at_c \div 1000
            /\ distances.dist_to_end = (total - at_c) \div 1000
            /\ distances.min_dist_to_route = haversine(lat, all[c])
            /\ distances.dist_from_start >= 0
            /\ distances.dist_to_end >= 0
            /\ distances.dist_from_start + distances.dist_to_end = total \div 1000

\* A feature whose nearest track point lies mid-route and was not sampled.
C16_Witness ==
    /\ pc = "annotated"
    /\ Len(route_points) = 3
    /\ Len(points) = 2
    /\ closest_index = 1
    /\ \A k \in DOMAIN points : points[k] # route_points[2]
    /\ distances.dist_from_start = 1
    /\ distances.dist_to_end = 1
    /\ distances.min_dist_to_route = 0

\* ------------------------------------------------------ way claims
Remove(s, k) == SubSeq(s, 1, k - 1) \o SubSeq(s, k + 1, Len(s))

\* The way has no provided centroid and no node data to compute one from.
NoCentroid(w) == w.center = <<>> /\ (w.incomplete \/ w.nodes = <<>>)

\* C17: once the waypoints are built (the run having got there whatever the
\* ways hold), a way of the result list with no provided centroid and with
\* missing or incomplete node data has no waypoint, and the waypoint list is
\* the one the run builds from the same result lists without that way.
C17_IncompleteWaySkipped ==
    pc \in {"write", "done"} =>
        \A k \in DOMAIN result_ways :
            NoCentroid(result_ways[k]) =>
                /\ Count("way", result_ways[k].id) = 0
                /\ waypoints = WaypointsOf(result_nodes, Remove(result_ways, k))

\* A finished run whose first way raised DataIncomplete and had no centre,
\* and whose second way got its waypoint.
C17_Witness ==
    /\ pc = "done"
    /\ output_written
    /\ Len(result_ways) = 2
    /\ result_ways[1].incomplete
    /\ NoCentroid(result_ways[1])
    /\ Count("way", result_ways[1].id) = 0
    /\ Count("way", result_ways[2].id) = 1

\* C18: once the waypoints are built, a way of the result list that has a
\* provided centroid (and whose id is not also the id of a node of the
\* result, which is C7's subject) has exactly one waypoint, located at that
\* centroid, whatever its node data is.
C18_WayAtProvidedCentroid ==
    pc \in {"write", "done"} =>
        \A k \in DOMAIN result_ways :
            LET w == result_ways[k] IN
            (w.center # <<>> /\ w.id \notin Ids(result_nodes)) =>
                /\ Count("way", w.id) = 1
                /\ \A j \in DOMAIN waypoints :
                    (waypoints[j].kind = "way" /\ waypoints[j].id = w.id) =>
                        waypoints[j].lat = w.center[1]

C20_OutputIsInputPlusWaypoints ==
    output_written =>
        /\ new_gpx.tracks = gpx.tracks
        /\ Len(new_gpx.waypoints) = Len(gpx.waypoints) + Len(waypoints)
        /\ SubSeq(new_gpx.waypoints, 1, Len(gpx.waypoints)) = gpx.waypoints
        /\ SubSeq(new_gpx.waypoints, Len(gpx.waypoints) + 1, Len(new_gpx.waypoints)) = waypoints

\* ----------------------------------------------------------------- C21
\* C21: when a feature has a website tag, the text add_wp appends to the
\* description after "Website: " is the normalized URL (trimmed, entities
\* unescaped, https scheme defaulted), the URL the link is made from, not
\* the raw tag value.
C21_WebsiteTextIsNormalized ==
    (pc = "added" /\ Truthy(Website(tags)))
        => /\ wpt[1].description.website = <<sanitize_url(Website(tags)[1])>>
           /\ wpt[1].link = <<escape_xml(wpt[1].description.website[1])>>

\* ----------------------------------------------------------------- C22
\* what the claim lists as affecting the query output
AffectsQueryOutput(inv) ==
    <<inv.input_file, inv.stat, inv.distance_step, inv.search_radius, AMENITY_FILTER,
      build_query_for_points(inv), Endpoint(inv)>>

\* C22: the cache key is a function of its inputs, and two invocations whose
\* inputs differ in the input file's identity, the distance step, the search
\* radius, the amenity filter, the scope, the coordinates of the sample
\* points sent in the queries or the service endpoint get different keys, so
\* that they look for different cache files.
C22_KeySeparatesInputs ==
    Len(cache_digest) = 2
        => /\ invocations[1] = invocations[2] => cache_digest[1] = cache_digest[2]
           /\ AffectsQueryOutput(invocations[1]) # AffectsQueryOutput(invocations[2])
                  => cache_paths(cache_digest[1]) # cache_paths(cache_digest[2])

\* ----------------------------------------------------------------- C23
\* blocks is the whole document of one writer
WholeEntry(blocks) ==
    /\ Parses(blocks)
    /\ \A k \in DOMAIN blocks : blocks[k].writer = blocks[1].writer

\* C23: under any interleaving of concurrent runs that share a cache key, a
\* reader never obtains a partial or corrupt entry as a hit, and once no
\* write is under way the stored entry is the whole entry of one writer.
C23_AtomicReplace ==
    /\ \A p \in DOMAIN procs : procs[p].data # <<>> => WholeEntry(procs[p].data[1])
    /\ (\A p \in DOMAIN procs : procs[p].at # "dump")
           => (path_blocks = <<>> \/ WholeEntry(path_blocks[1]))

\* ----------------------------------------------------------------- C24
\* C24: the pipeline supports a caller-supplied cancellation signal: once
\* it is raised the run is not ended by an error, no further query is
\* issued, and the run returns the features aggregated so far as a partial,
\* non-fatal result, which the output file is made from.
C24_CancellationGivesPartialResult ==
    cancel => /\ crash = "none"
              /\ pc # "crashed"
              /\ pc = "done" => /\ output_written
                                /\ waypoints = WaypointsOf(result_nodes, result_ways)

\* ----------------------------------------------------------------- C25
\* this step is a call of api.query
QueryStep == pc = "query" /\ queries' = queries + 1

\* C25: within one batch the sleep before the k-th retry (k = 1..retries)
\* lasts at least retry_backoff * 2^(k-1) and at most 1.3 * retry_backoff *
\* 2^(k-1) seconds, and a backoff sleep occurs only between a retryable
\* failure and the next attempt: none after the final failed attempt, none
\* after an error that is not retried.
C25_BackoffSchedule ==
    [][(QueryStep /\ last_error' # "none")
          => LET k == attempt
             IN  IF last_error' \in RetryableErrors /\ k <= args.retries
                 THEN /\ last_call' # NoCall
                      /\ last_call'[1].call = "sleep"
                      /\ last_call'[1].seconds >= TenthsPerSecond * retry_backoff * 2^(k - 1)
                      /\ last_call'[1].seconds <= 13 * retry_backoff * 2^(k - 1)
                      /\ sleeps' = sleeps + 1
                      /\ attempt' = k + 1
                 ELSE /\ last_call' = ApiQuery
                      /\ sleeps' = sleeps]_vars

\* the second retry of a batch is about to be made after the longest sleep
\* the jitter allows
C25_Witness ==
    /\ pc = "query"
    /\ attempt = 3
    /\ last_call = TimeSleep(13 * retry_backoff * 2)

\* ----------------------------------------------------------------- C26
\* C26: after each successfully completed batch and before the first query
\* of the next batch the run pauses for batch_sleep seconds, for 0 seconds
\* when batch_sleep is negative.
C26_Pacing ==
    (pc = "query" /\ attempt = 1 /\ batchLog # <<>> /\ batchLog[Len(batchLog)].status = "ok")
        => last_call = TimeSleep(IF args.batch_sleep < 0 THEN 0 ELSE args.batch_sleep)

\* the first query of the second batch is due after a successful first
\* batch, with a negative --batch-sleep
C26_Witness ==
    /\ pc = "query"
    /\ attempt = 1
    /\ Len(batchLog) = 1
    /\ batchLog[1].status = "ok"
    /\ args.batch_sleep < 0
    /\ last_call = TimeSleep(0)

\* ----------------------------------------------------------------- C27
\* C27: any two consecutive queries sent to the remote service in one run
\* are separated by a sleep; the first query of a batch is never sent
\* immediately after the failed last attempt of the previous batch.
C27_SleepBetweenQueries ==
    [][QueryStep => last_call # ApiQuery]_vars

\* C27, amended: a query follows a sleep (the backoff sleep within a batch,
\* the pacing sleep after a successful batch) except the first query of a
\* batch that follows a permanently failed batch: that one is sent right
\* after the failed batch's last query, which was its attempt retries + 1
\* failing with a retryable error or an attempt failing with an error that
\* is not retried.
C27_SleepUnlessBatchFailed ==
    [][QueryStep
          => IF attempt > 1
             THEN last_call # NoCall /\ last_call[1].call = "sleep"
             ELSE IF batchLog = <<>>
             THEN last_call = NoCall
             ELSE LET e == batchLog[Len(batchLog)]
                  IN  IF e.status = "ok"
                      THEN last_call = TimeSleep(Pacing(args.batch_sleep))
                      ELSE /\ last_call = ApiQuery
                           /\ e.status = "exhausted"
                                  => e.error \in RetryableErrors /\ e.queries = args.retries + 1
                           /\ e.status = "fatal" => e.error \in FatalErrors]_vars

\* the second batch was queried right after the first one ran out of retries
C27_Witness ==
    /\ Len(batchLog) = 2
    /\ batchLog[1].status = "exhausted"
    /\ batchLog[1].sleeps = args.retries
    /\ args.retries > 0
    /\ batchLog[2].queries = 1

\* ----------------------------------------------------------------- C28
\* C28: the cache is saved only on success: a run writes a cache entry only
\* if caching is enabled, the lookup missed and every batch succeeded, so a
\* run in which a batch failed permanently leaves no entry for a later run
\* to reuse.
C28_SaveOnlyOnSuccess ==
    saved => /\ ~args.no_cache
             /\ ~cached.hit
             /\ \A k \in DOMAIN batchLog : batchLog[k].status = "ok"

\* ----------------------------------------------------------------- C29
\* a dictionary as a map: its values, whatever the insertion order
AsMap(final) == {final[k] : k \in DOMAIN final}

SameMap(m1, m2) == AsMap(m1.nodes) = AsMap(m2.nodes) /\ AsMap(m1.ways) = AsMap(m2.ways)

\* C29: the first-write-wins merge keyed by (kind, id) is commutative and
\* idempotent: merging the same set of batch results in any completion
\* order, or merging a batch result twice, yields an identical combined
\* feature map, with the same keys and the same feature data per key.
C29_MergeCommutativeIdempotent ==
    pc = "merged" => SameMap(merged[1], merged[2])

\* the element with this id in the first batch result of the order that has one
FirstCapture(results, kind, id) ==
    LET k == Earliest({j \in DOMAIN results : id \in Ids(results[j][kind])})
    IN  ElementOf(results[k][kind], id)

KeysOf(results, kind) == UNION {Ids(results[j][kind]) : j \in DOMAIN results}

\* every batch result that holds a feature holds the same data for it
Agreeing(results) ==
    \A kind \in {"nodes", "ways"} : \A j1, j2 \in DOMAIN results :
        \A id \in Ids(results[j1][kind]) \cap Ids(results[j2][kind]) :
            ElementOf(results[j1][kind], id) = ElementOf(results[j2][kind], id)

\* C29, amended: the merge is idempotent (a batch result merged once more
\* changes nothing) and the keys of the combined map do not depend on the
\* completion order; the data under a key is that of the first batch result
\* in completion order that holds the key, so the combined maps of two
\* orders are identical when the batch results agree on the features they
\* share, and otherwise differ in the data of those features only.
C29_FirstCompletedWins ==
    pc = "merged"
        => /\ \A o \in 1..2 : \A kind \in {"nodes", "ways"} :
                /\ Ids(merged[o][kind]) = KeysOf(completions[o], kind)
                /\ UniqueIds(merged[o][kind])
                /\ \A id \in Ids(merged[o][kind]) :
                      ElementOf(merged[o][kind], id) = FirstCapture(completions[o], kind, id)
           /\ \A kind \in {"nodes", "ways"} : Ids(merged[1][kind]) = Ids(merged[2][kind])
           /\ (\E j \in DOMAIN completions[1] :
                  completions[2] = Append(completions[1], completions[1][j]))
                  => merged[2] = merged[1]
           /\ Agreeing(completions[1]) => SameMap(merged[1], merged[2])

\* two batch results hold node 1 at different positions and were merged in
\* both orders: the combined maps differ in that node's data
C29_Witness ==
    /\ pc = "merged"
    /\ Len(completions[1]) = 2
    /\ completions[2] = <<completions[1][2], completions[1][1]>>
    /\ 1 \in Ids(completions[1][1].nodes) \cap Ids(completions[1][2].nodes)
    /\ ~Agreeing(completions[1])
    /\ ~SameMap(merged[1], merged[2])

\* ----------------------------------------------------------------- C30
\* the batches of this run whose query returned
OkBatches == {k \in DOMAIN batchLog : batchLog[k].status = "ok"}

\* C30: for every non-empty track, every retries >= 0 and batch size >= 1
\* and every pattern of client successes and failures, the run makes at most
\* ceil(sample points / batch size) * (retries + 1) queries, ends by writing
\* the output file, and the waypoints of that file are exactly those of the
\* features of the batches that succeeded: one per node, one per way that
\* has a centroid or the node data to compute one, and no other.  (Stated
\* for the runs that got past the cache lookup without a hit and were not
\* interrupted.)
C30_BoundedRunWritesSucceededFeatures ==
    (points # <<>> /\ ~cached.hit /\ ~cancel /\ pc # "start" /\ crash # "try_load_cache")
        => /\ queries <= TotalBatches * (args.retries + 1)
           /\ pc # "crashed"
           /\ pc = "done" =>
                /\ output_written
                /\ \A k \in OkBatches :
                    /\ \A n \in DOMAIN batchLog[k].nodes :
                          Count("node", batchLog[k].nodes[n].id) = 1
                    /\ \A w \in DOMAIN batchLog[k].ways :
                          ~NoCentroid(batchLog[k].ways[w])
                              => Count("way", batchLog[k].ways[w].id) = 1
                /\ \A j \in DOMAIN waypoints :
                      \E k \in OkBatches :
                          waypoints[j].id \in Ids(IF waypoints[j].kind = "node"
                                                  THEN batchLog[k].nodes ELSE batchLog[k].ways)

====
